---- MODULE Spec2Model ----
(***************************************************************************)
(* A model of py-resokerr: the immutable Result variants Ok / Err, their   *)
(* MessageTrace log and the capability mixins of src/result.py, together   *)
(* with the serialization surface (MessageTrace.to_dict, Validator,        *)
(* MessageTrace.success) that tests/test_message_trace.py exercises.       *)
(*                                                                         *)
(* Python values are encoded uniformly as records                          *)
(*    [t |-> runtime type name, s |-> str(value), d |-> mapping items,     *)
(*     attrs |-> names of the methods the value's class defines]           *)
(* Mutable mappings owned by the caller live in the heap `dicts` and are   *)
(* referred to by their id (0 is None), so that aliasing is visible.       *)
(***************************************************************************)
EXTENDS Integers, Sequences, FiniteSets, TLC

VARIABLES
    objs,      \* heap of Result instances, in allocation order
    origin,    \* origin[i]: the instance objs[i] was derived from (0: constructed directly)
    dicts,     \* heap of caller-owned mutable mappings: id -> set of <<key, value>>
    hist,      \* <<id, items>>: mapping id was handed to a MessageTrace while holding items
    muts,      \* number of caller mutations of a mapping so far
    last,      \* the last with_* call: operation, receiver, receiver as it was, arguments, result
    pc,        \* concurrent callers: position of each caller inside its with_* call
    loc,       \* concurrent callers: local variables of each caller
    trace,     \* serialization: the MessageTrace under serialization and how it was made
    out,       \* serialization: what to_dict() returned
    lists,     \* heap of caller-owned mutable lists of traces: id -> elements in order
    given      \* given[i]: what the call that made objs[i] was given: the messages argument
               \* of a constructor as it was then, the arguments of a with_*

vars == <<objs, origin, dicts, hist, muts, last, pc, loc, trace, out, lists, given>>

----------------------------------------------------------------------------
(* Bounds of the model *)

MaxObjs == 3
MaxMuts == 1

----------------------------------------------------------------------------
(* Python values *)

PyNone == [t |-> "NoneType", s |-> "None", d |-> {}, attrs |-> {}]

PyStr(x) == [t |-> "str", s |-> x, d |-> {}, attrs |-> {}]

PyDict(items) == [t |-> "dict", s |-> "{...}", d |-> items, attrs |-> {}]

\* tuple(iterable): the elements in iteration order
tuple(xs) == [i \in 1..Len(xs) |-> xs[i]]

----------------------------------------------------------------------------
(* TraceSeverityLevel and MessageTrace *)

TraceSeverityLevel == [INFO |-> "info", WARNING |-> "warning", ERROR |-> "error"]

MessageTrace(message, severity, code, details, stack_trace) ==
    [message |-> message, severity |-> severity, code |-> code,
     details |-> details, stack_trace |-> stack_trace]

\* mutant: the info factory tags its trace WARNING
MessageTrace_info_as_warning(message, code, details, stack_trace) ==
    MessageTrace(message, "WARNING", code, details, stack_trace)

\* mutant: the info factory does not pass the code on
MessageTrace_info_drops_code(message, code, details, stack_trace) ==
    MessageTrace(message, "INFO", PyNone, details, stack_trace)

MessageTrace_info(message, code, details, stack_trace) ==
    MessageTrace(message, "INFO", code, details, stack_trace)

MessageTrace_warning(message, code, details, stack_trace) ==
    MessageTrace(message, "WARNING", code, details, stack_trace)

MessageTrace_error(message, code, details, stack_trace) ==
    MessageTrace(message, "ERROR", code, details, stack_trace)

----------------------------------------------------------------------------
(* Mixins *)

\* mutant: the matches are collected in reverse order
RECURSIVE get_messages_by_severity_reversed(_, _)
get_messages_by_severity_reversed(messages, severity) ==
    IF messages = <<>> THEN <<>>
    ELSE LET message == Head(messages)
             rest == get_messages_by_severity_reversed(Tail(messages), severity)
         IN IF message.severity = severity THEN rest \o <<message>> ELSE rest

RECURSIVE _get_messages_by_severity(_, _)
_get_messages_by_severity(messages, severity) ==
    IF messages = <<>> THEN <<>>
    ELSE LET message == Head(messages)
             rest == _get_messages_by_severity(Tail(messages), severity)
         IN IF message.severity = severity THEN <<message>> \o rest ELSE rest

error_messages(self) == _get_messages_by_severity(self.messages, "ERROR")

has_errors(self) == Len(error_messages(self)) > 0

info_messages(self) == _get_messages_by_severity(self.messages, "INFO")

has_info(self) == Len(info_messages(self)) > 0

warning_messages(self) == _get_messages_by_severity(self.messages, "WARNING")

has_warnings(self) == Len(warning_messages(self)) > 0

has_metadata(self) == self.metadata # 0

\* mutant: isinstance(self, Ok) in place of type(self) is Ok
is_ok_isinstance(self) == self.cls \in {"Ok", "OkSub"}

\* type(self) is Ok, type(self) is Err: self.cls is the runtime type
is_ok(self) == self.cls = "Ok"

is_err(self) == self.cls = "Err"

----------------------------------------------------------------------------
(* Classes: Ok and Err, and the classes a caller can put beside them: a     *)
(* subclass of each, and a look-alike with Ok's fields and StatusMixin that *)
(* derives from neither.                                                    *)

Classes == {"Ok", "Err", "OkSub", "ErrSub", "LookAlike"}

\* isinstance(self, Ok), isinstance(self, Err)
IsOkInstance(self) == self.cls \in {"Ok", "OkSub"}

IsErrInstance(self) == self.cls \in {"Err", "ErrSub"}

\* the with_* methods a class defines or inherits
Methods(cls) ==
    CASE cls \in {"Ok", "OkSub"} -> {"with_info", "with_warning"}
      [] cls \in {"Err", "ErrSub"} -> {"with_error", "with_info", "with_warning"}
      [] OTHER -> {}

\* the severities a class collects (its *CollectorMixin bases)
Collects(cls) ==
    CASE cls \in {"Ok", "OkSub"} -> {"INFO", "WARNING"}
      [] cls \in {"Err", "ErrSub"} -> {"ERROR", "INFO", "WARNING"}
      [] OTHER -> {}

----------------------------------------------------------------------------
(* Ok *)

Ok_init(cls, value, messages, metadata) ==
    [cls |-> cls, value |-> value, messages |-> tuple(messages), metadata |-> metadata]

Ok(value, messages, metadata) == Ok_init("Ok", value, messages, metadata)

has_value(self) == self.value # PyNone

\* mutant: the messages are taken from the newest instance (one list shared by all instances)
Ok_with_info_return_shared_messages(self, new_message) ==
    [cls |-> "Ok", value |-> self.value,
     messages |-> objs[Len(objs)].messages \o <<new_message>>, metadata |-> self.metadata]

\* the return statement of Ok.with_info
Ok_with_info_return(self, new_message) ==
    Ok(self.value, self.messages \o <<new_message>>, self.metadata)

\* mutant: with_info makes its trace with the error factory
Ok_with_info_as_error(self, message, code, details, stack_trace) ==
    [cls |-> "Ok", value |-> self.value,
     messages |-> self.messages \o <<MessageTrace_error(message, code, details, stack_trace)>>,
     metadata |-> self.metadata]

Ok_with_info(self, message, code, details, stack_trace) ==
    LET new_message == MessageTrace_info(message, code, details, stack_trace)
    IN Ok_with_info_return(self, new_message)

\* mutant: the metadata is not passed on
Ok_with_warning_return_no_metadata(self, new_message) ==
    [cls |-> "Ok", value |-> self.value,
     messages |-> self.messages \o <<new_message>>, metadata |-> 0]

\* the return statement of Ok.with_warning
Ok_with_warning_return(self, new_message) ==
    Ok(self.value, self.messages \o <<new_message>>, self.metadata)

Ok_with_warning(self, message, code, details, stack_trace) ==
    LET new_message == MessageTrace_warning(message, code, details, stack_trace)
    IN Ok_with_warning_return(self, new_message)

----------------------------------------------------------------------------
(* Err *)

Err_init(cls, trace_, messages, metadata) ==
    [cls |-> cls, trace |-> trace_, messages |-> tuple(messages), metadata |-> metadata]

Err(trace_, messages, metadata) == Err_init("Err", trace_, messages, metadata)

has_trace(self) == self.trace # PyNone

\* mutant: the new trace is put first
Err_with_error_return_prepends(self, new_message) ==
    [cls |-> "Err", trace |-> self.trace,
     messages |-> <<new_message>> \o self.messages, metadata |-> self.metadata]

\* the return statement of Err.with_error
Err_with_error_return(self, new_message) ==
    Err(self.trace, self.messages \o <<new_message>>, self.metadata)

Err_with_error(self, message, code, details, stack_trace) ==
    LET new_message == MessageTrace_error(message, code, details, stack_trace)
    IN Err_with_error_return(self, new_message)

\* the return statement of Err.with_info
Err_with_info_return(self, new_message) ==
    Err(self.trace, self.messages \o <<new_message>>, self.metadata)

Err_with_info(self, message, code, details, stack_trace) ==
    LET new_message == MessageTrace_info(message, code, details, stack_trace)
    IN Err_with_info_return(self, new_message)

\* mutant: the new trace is put before the last one
Err_with_warning_return_inserts(self, new_message) ==
    IF self.messages = <<>> THEN Err(self.trace, <<new_message>>, self.metadata)
    ELSE Err(self.trace,
             SubSeq(self.messages, 1, Len(self.messages) - 1)
                \o <<new_message, self.messages[Len(self.messages)]>>,
             self.metadata)

\* the return statement of Err.with_warning
Err_with_warning_return(self, new_message) ==
    Err(self.trace, self.messages \o <<new_message>>, self.metadata)

Err_with_warning(self, message, code, details, stack_trace) ==
    LET new_message == MessageTrace_warning(message, code, details, stack_trace)
    IN Err_with_warning_return(self, new_message)

----------------------------------------------------------------------------
(* Inputs: what the callers of the library pass in *)

\* caller-owned mappings: 1 is passed as details, 2 as metadata
DetailsDict == 1

MetadataDict == 2

InitDicts == (DetailsDict :> {<<"field", "optional">>}) @@ (MetadataDict :> {<<"request", "r1">>})

ValueError == [t |-> "ValueError", s |-> "Invalid input", d |-> {}, attrs |-> {}]

\* (message, code, details, stack_trace) of a with_* or factory call
Args(message, code, details, stack_trace) ==
    [message |-> message, code |-> code, details |-> details, stack_trace |-> stack_trace]

CallArgs ==
    { Args(PyStr("Step 1 completed"), PyStr("STEP_1"), 0, PyNone),
      Args(PyStr("Minor issue detected"), PyNone, DetailsDict, PyNone),
      Args(PyStr("Validation failed"), PyStr("VAL_001"), DetailsDict, PyStr("test.py:42")) }

OldError == MessageTrace(PyStr("old"), "ERROR", PyNone, DetailsDict, PyNone)

\* the instances a caller constructs directly
CtorCalls ==
    { Ok(PyStr("success"), <<>>, 0),
      Ok(PyNone, <<OldError>>, MetadataDict),
      Err(PyNone, <<OldError>>, MetadataDict),
      Ok_init("OkSub", PyStr("success"), <<>>, 0),
      Err_init("ErrSub", ValueError, <<>>, 0),
      Ok_init("LookAlike", PyStr("success"), <<>>, 0) }

NoCall ==
    [op |-> "none", recv |-> 0, before |-> Ok(PyNone, <<>>, 0),
     args |-> Args(PyNone, PyNone, 0, PyNone), ret |-> 0]

Idle == [pc |-> "idle"]

----------------------------------------------------------------------------
(* Sequential use of the library: construct, derive, and mutate one's own  *)
(* mappings.                                                               *)

\* the mappings handed to the traces of messages, with what they hold now
Handed(messages) ==
    { <<messages[k].details, dicts[messages[k].details]>> :
        k \in { j \in 1..Len(messages) : messages[j].details # 0 } }

Init ==
    /\ objs = <<>>
    /\ origin = <<>>
    /\ dicts = InitDicts
    /\ hist = {}
    /\ muts = 0
    /\ lists = <<>>
    /\ given = <<>>
    /\ last = NoCall
    /\ pc = <<>>
    /\ loc = <<>>
    /\ trace = Idle
    /\ out = Idle

Construct(new) ==
    /\ Len(objs) < MaxObjs
    /\ objs' = Append(objs, new)
    /\ origin' = Append(origin, 0)
    /\ hist' = hist \cup Handed(new.messages)
    /\ given' = Append(given, [from |-> "tuple", ref |-> 0, items |-> new.messages])
    /\ UNCHANGED <<lists, dicts, muts, last, pc, loc, trace, out>>

\* r.op(a.message, a.code, a.details, a.stack_trace) returned new
Derive(i, op, a, new) ==
    /\ Len(objs) < MaxObjs
    /\ op \in Methods(objs[i].cls)
    /\ objs' = Append(objs, new)
    /\ origin' = Append(origin, i)
    /\ hist' = hist \cup (IF a.details # 0 THEN {<<a.details, dicts[a.details]>>} ELSE {})
    /\ last' = [op |-> op, recv |-> i, before |-> objs[i], args |-> a, ret |-> Len(objs) + 1]
    /\ given' = Append(given, [from |-> op, args |-> a])
    /\ UNCHANGED <<lists, dicts, muts, pc, loc, trace, out>>

CallOkWithInfo(i, a) ==
    /\ IsOkInstance(objs[i])
    /\ Derive(i, "with_info", a,
              Ok_with_info(objs[i], a.message, a.code, a.details, a.stack_trace))

CallOkWithWarning(i, a) ==
    /\ IsOkInstance(objs[i])
    /\ Derive(i, "with_warning", a,
              Ok_with_warning(objs[i], a.message, a.code, a.details, a.stack_trace))

CallErrWithError(i, a) ==
    /\ IsErrInstance(objs[i])
    /\ Derive(i, "with_error", a,
              Err_with_error(objs[i], a.message, a.code, a.details, a.stack_trace))

CallErrWithInfo(i, a) ==
    /\ IsErrInstance(objs[i])
    /\ Derive(i, "with_info", a,
              Err_with_info(objs[i], a.message, a.code, a.details, a.stack_trace))

CallErrWithWarning(i, a) ==
    /\ IsErrInstance(objs[i])
    /\ Derive(i, "with_warning", a,
              Err_with_warning(objs[i], a.message, a.code, a.details, a.stack_trace))

\* the caller's own d[k] = v (a new key or a changed one)
SetItem(d, k, v) ==
    /\ muts < MaxMuts
    /\ <<k, v>> \notin dicts[d]
    /\ dicts' = [dicts EXCEPT ![d] = {kv \in @ : kv[1] # k} \cup {<<k, v>>}]
    /\ muts' = muts + 1
    /\ UNCHANGED <<lists, given, objs, origin, hist, last, pc, loc, trace, out>>

\* the caller's own del d[k]
DelItem(d, k) ==
    /\ muts < MaxMuts
    /\ \E kv \in dicts[d] : kv[1] = k
    /\ dicts' = [dicts EXCEPT ![d] = {kv \in @ : kv[1] # k}]
    /\ muts' = muts + 1
    /\ UNCHANGED <<lists, given, objs, origin, hist, last, pc, loc, trace, out>>

Next ==
    \/ \E new \in CtorCalls : Construct(new)
    \/ \E i \in 1..Len(objs), a \in CallArgs : CallOkWithInfo(i, a)
    \/ \E i \in 1..Len(objs), a \in CallArgs : CallOkWithWarning(i, a)
    \/ \E i \in 1..Len(objs), a \in CallArgs : CallErrWithError(i, a)
    \/ \E i \in 1..Len(objs), a \in CallArgs : CallErrWithInfo(i, a)
    \/ \E i \in 1..Len(objs), a \in CallArgs : CallErrWithWarning(i, a)

Spec == Init /\ [][Next]_vars

\* the same, with callers that go on to change the mappings they handed over
AliasNext ==
    \/ Next
    \/ \E k \in {"field", "extra"} : SetItem(DetailsDict, k, "modified")
    \/ DelItem(DetailsDict, "field")

SpecAlias == Init /\ [][AliasNext]_vars

----------------------------------------------------------------------------
(* Claims about sequential use (specification Spec) *)

HeapIds == 1..Len(objs)

\* the directly constructed instance that objs[i] descends from
RECURSIVE Root(_)
Root(i) == IF origin[i] = 0 THEN i ELSE Root(origin[i])

\* the severity each append operation is named after
SeverityNamedBy(op) ==
    CASE op = "with_info" -> "INFO"
      [] op = "with_warning" -> "WARNING"
      [] op = "with_error" -> "ERROR"

\* C1: every append operation returns a Result whose messages are the
\* receiver's messages followed by exactly one new MessageTrace, of the severity
\* the operation is named after and with the message, code, details and
\* stack_trace given; the receiver's messages (the receiver as a whole) are
\* after the call what they were before it.
C1_AppendsOneTrace ==
    last.op # "none" =>
        /\ objs[last.ret].messages =
              last.before.messages \o
                  << [message |-> last.args.message,
                      severity |-> SeverityNamedBy(last.op),
                      code |-> last.args.code,
                      details |-> last.args.details,
                      stack_trace |-> last.args.stack_trace] >>
        /\ objs[last.recv].messages = last.before.messages
        /\ objs[last.recv] = last.before

\* C1's case: with_error on an Err that already holds messages, with details given
C1_Witness ==
    /\ last.op = "with_error"
    /\ Len(last.before.messages) > 0
    /\ last.args.details # 0
    /\ Len(objs[last.ret].messages) = 2

Variant(o) == IF IsOkInstance(o) THEN "Ok" ELSE IF IsErrInstance(o) THEN "Err" ELSE "other"

\* value of an Ok, trace of an Err
Payload(o) == IF IsOkInstance(o) THEN o.value ELSE o.trace

\* C2: every append operation returns an Ok for an Ok and an Err for an Err,
\* with the receiver's value (trace) and metadata; so every derived instance has
\* the variant, value (trace) and metadata of the constructed instance it
\* descends from.
C2_FrameOfAppend ==
    \A i \in HeapIds :
        origin[i] # 0 =>
            /\ objs[i].cls = Variant(objs[origin[i]])
            /\ Payload(objs[i]) = Payload(objs[origin[i]])
            /\ objs[i].metadata = objs[origin[i]].metadata
            /\ objs[i].cls = Variant(objs[Root(i)])
            /\ Payload(objs[i]) = Payload(objs[Root(i)])
            /\ objs[i].metadata = objs[Root(i)].metadata

\* C2's case: a second-generation descendant of an instance that has metadata
C2_Witness ==
    \E i \in HeapIds :
        /\ origin[i] # 0
        /\ origin[origin[i]] # 0
        /\ objs[Root(i)].metadata = MetadataDict
        /\ Payload(objs[Root(i)]) = PyNone

\* C3: is_ok holds of exactly the instances whose type is Ok and is_err of
\* exactly those whose type is Err: never both, and never of a subclass or of
\* a look-alike.
C3_StatusExact ==
    \A i \in HeapIds :
        /\ objs[i].cls = "Ok" => (is_ok(objs[i]) /\ ~is_err(objs[i]))
        /\ objs[i].cls = "Err" => (is_err(objs[i]) /\ ~is_ok(objs[i]))
        /\ ~(is_ok(objs[i]) /\ is_err(objs[i]))
        /\ objs[i].cls \in {"OkSub", "ErrSub", "LookAlike"} =>
              (~is_ok(objs[i]) /\ ~is_err(objs[i]))
        /\ origin[i] # 0 => (is_ok(objs[i]) <=> Variant(objs[origin[i]]) = "Ok")

\* C3's case: a look-alike, a subclass instance and an Ok derived from the subclass instance
C3_Witness ==
    /\ \E i \in HeapIds : objs[i].cls = "LookAlike"
    /\ \E i, j \in HeapIds : objs[i].cls = "OkSub" /\ origin[j] = i /\ is_ok(objs[j])

\* the accessors of severity S
MessagesOf(o, S) ==
    CASE S = "INFO" -> info_messages(o)
      [] S = "WARNING" -> warning_messages(o)
      [] S = "ERROR" -> error_messages(o)

HasOf(o, S) ==
    CASE S = "INFO" -> has_info(o)
      [] S = "WARNING" -> has_warnings(o)
      [] S = "ERROR" -> has_errors(o)

\* the positions of messages whose severity is S
PositionsOf(messages, S) == { i \in 1..Len(messages) : messages[i].severity = S }

\* the k-th smallest member of a set of positions
Kth(positions, k) == CHOOSE i \in positions : Cardinality({ j \in positions : j < i }) = k - 1

\* C4: for every severity a Result collects, the accessor returns exactly the
\* messages of that severity in their original relative order, and has_<severity>
\* holds iff there is one.
C4_FilterBySeverity ==
    \A i \in HeapIds : \A S \in Collects(objs[i].cls) :
        LET messages == objs[i].messages
            res == MessagesOf(objs[i], S)
            pos == PositionsOf(messages, S)
        IN /\ Len(res) = Cardinality(pos)
           /\ \A k \in 1..Len(res) : res[k] = messages[Kth(pos, k)]
           /\ HasOf(objs[i], S) <=> (pos # {})

\* C4's case: two different errors with an info between them, and no warning
C4_Witness ==
    \E i \in HeapIds :
        /\ IsErrInstance(objs[i])
        /\ Len(objs[i].messages) = 3
        /\ PositionsOf(objs[i].messages, "ERROR") = {1, 3}
        /\ objs[i].messages[1] # objs[i].messages[3]
        /\ ~has_warnings(objs[i])
        /\ has_info(objs[i])

\* C5: the details a trace shows are always the contents the caller's mapping
\* had when the trace was constructed, whatever the caller did to the mapping
\* since.
C5_DetailsSnapshot ==
    \A i \in HeapIds : \A k \in 1..Len(objs[i].messages) :
        LET details == objs[i].messages[k].details
        IN details # 0 => \A h \in hist : h[1] = details => dicts[details] = h[2]

\* C7: an Ok that descends from an Ok constructed without messages holds only
\* Info and Warning traces; with_error is only ever called on an Err.
C7_OkHoldsNoError ==
    /\ \A i \in HeapIds :
          (IsOkInstance(objs[i]) /\ objs[Root(i)].messages = <<>>) =>
              \A k \in 1..Len(objs[i].messages) :
                  objs[i].messages[k].severity \in {"INFO", "WARNING"}
    /\ "with_error" \notin Methods("Ok")
    /\ last.op = "with_error" => IsErrInstance(last.before)

\* C7's case: an exact Ok two appends away from an Ok constructed without messages
C7_Witness ==
    \E i \in HeapIds :
        /\ is_ok(objs[i])
        /\ objs[Root(i)].messages = <<>>
        /\ has_info(objs[i]) /\ has_warnings(objs[i])

----------------------------------------------------------------------------
(* Concurrent use: callers on different threads, each inside a with_* call *)
(* on an instance all of them can see. A call is three steps: the method   *)
(* is entered, the new MessageTrace is made, and the return statement      *)
(* reads the receiver's fields and constructs the result.                  *)

Callers == {1, 2}

NoLoc ==
    [op |-> "none", self |-> 0, before |-> Ok(PyNone, <<>>, 0),
     args |-> Args(PyNone, PyNone, 0, PyNone),
     new_message |-> MessageTrace(PyNone, "INFO", PyNone, 0, PyNone),
     seen |-> 0, ret |-> 0]

\* the factory call that opens the body of self.op
new_message_of(op, a) ==
    CASE op = "with_info" -> MessageTrace_info(a.message, a.code, a.details, a.stack_trace)
      [] op = "with_warning" -> MessageTrace_warning(a.message, a.code, a.details, a.stack_trace)
      [] op = "with_error" -> MessageTrace_error(a.message, a.code, a.details, a.stack_trace)

\* the return statement of self.op, by the class of self
return_of(self, op, new_message) ==
    CASE IsOkInstance(self) /\ op = "with_info" -> Ok_with_info_return(self, new_message)
      [] IsOkInstance(self) /\ op = "with_warning" -> Ok_with_warning_return(self, new_message)
      [] IsErrInstance(self) /\ op = "with_error" -> Err_with_error_return(self, new_message)
      [] IsErrInstance(self) /\ op = "with_info" -> Err_with_info_return(self, new_message)
      [] IsErrInstance(self) /\ op = "with_warning" -> Err_with_warning_return(self, new_message)

InFlight == { c \in Callers : pc[c] \in {"entered", "made"} }

ConcInit ==
    /\ \E shared \in { o \in CtorCalls : Methods(o.cls) # {} } :
          /\ objs = <<shared>>
          /\ hist = { <<shared.messages[k].details, InitDicts[shared.messages[k].details]>> :
                        k \in { j \in 1..Len(shared.messages) : shared.messages[j].details # 0 } }
    /\ origin = <<0>>
    /\ dicts = InitDicts
    /\ muts = 0
    /\ lists = <<>>
    /\ given = <<>>
    /\ last = NoCall
    /\ pc = [c \in Callers |-> "idle"]
    /\ loc = [c \in Callers |-> NoLoc]
    /\ trace = Idle
    /\ out = Idle

Enter(c, i, op, a) ==
    /\ pc[c] \in {"idle", "done"}
    /\ Len(objs) + Cardinality(InFlight) < MaxObjs
    /\ op \in Methods(objs[i].cls)
    /\ pc' = [pc EXCEPT ![c] = "entered"]
    /\ loc' = [loc EXCEPT ![c] = [NoLoc EXCEPT !.op = op, !.self = i, !.before = objs[i],
                                                !.args = a, !.seen = Len(objs)]]
    /\ UNCHANGED <<lists, given, objs, origin, dicts, hist, muts, last, trace, out>>

MakeMessage(c) ==
    /\ pc[c] = "entered"
    /\ pc' = [pc EXCEPT ![c] = "made"]
    /\ loc' = [loc EXCEPT ![c].new_message = new_message_of(loc[c].op, loc[c].args)]
    /\ hist' = hist \cup (IF loc[c].args.details # 0
                          THEN {<<loc[c].args.details, dicts[loc[c].args.details]>>} ELSE {})
    /\ UNCHANGED <<lists, given, objs, origin, dicts, muts, last, trace, out>>

Return(c) ==
    /\ pc[c] = "made"
    /\ pc' = [pc EXCEPT ![c] = "done"]
    /\ objs' = Append(objs, return_of(objs[loc[c].self], loc[c].op, loc[c].new_message))
    /\ origin' = Append(origin, loc[c].self)
    /\ loc' = [loc EXCEPT ![c].ret = Len(objs) + 1]
    /\ last' = [op |-> loc[c].op, recv |-> loc[c].self, before |-> loc[c].before,
                args |-> loc[c].args, ret |-> Len(objs) + 1]
    /\ UNCHANGED <<lists, given, dicts, hist, muts, trace, out>>

ConcNext ==
    \/ \E c \in Callers, i \in 1..Len(objs), a \in CallArgs :
          \E op \in Methods(objs[i].cls) : Enter(c, i, op, a)
    \/ \E c \in Callers : MakeMessage(c)
    \/ \E c \in Callers : Return(c)

SpecConc == ConcInit /\ [][ConcNext]_vars

\* the trace a caller's call is to append
OwnTrace(c) ==
    [message |-> loc[c].args.message, severity |-> SeverityNamedBy(loc[c].op),
     code |-> loc[c].args.code, details |-> loc[c].args.details,
     stack_trace |-> loc[c].args.stack_trace]

InMessages(t, messages) == \E k \in 1..Len(messages) : messages[k] = t

\* C6: under every interleaving, the result of a caller's with_* call has the
\* messages the receiver had when the call was entered plus the caller's own
\* new trace and nothing else, in particular not the trace of another caller
\* of the same receiver; and the receiver is throughout what it was when the
\* call was entered.
C6_NoInterference ==
    \A c \in Callers :
        /\ pc[c] # "idle" => objs[loc[c].self] = loc[c].before
        /\ pc[c] = "done" =>
              /\ objs[loc[c].ret].messages = loc[c].before.messages \o <<OwnTrace(c)>>
              /\ objs[loc[c].ret].cls = Variant(loc[c].before)
              /\ Payload(objs[loc[c].ret]) = Payload(loc[c].before)
              /\ objs[loc[c].ret].metadata = loc[c].before.metadata
              /\ \A e \in Callers \ {c} :
                    (/\ pc[e] # "idle"
                     /\ loc[e].self = loc[c].self
                     /\ OwnTrace(e) # OwnTrace(c)
                     /\ ~InMessages(OwnTrace(e), loc[c].before.messages))
                    => ~InMessages(OwnTrace(e), objs[loc[c].ret].messages)

\* C6's case: two callers of the same instance with different traces, the
\* second of which returned while the first was inside its call
C6_Witness ==
    /\ pc[1] = "done" /\ pc[2] = "done"
    /\ loc[1].self = 1 /\ loc[2].self = 1
    /\ loc[1].op = "with_info" /\ loc[2].op = "with_warning"
    /\ OwnTrace(1) # OwnTrace(2)
    /\ loc[1].seen = 1 /\ loc[2].seen = 1
    /\ loc[2].ret = 2 /\ loc[1].ret = 3

----------------------------------------------------------------------------
(* Serialization. src/result.py holds neither MessageTrace.to_dict, nor     *)
(* Validator, nor the SUCCESS severity and its factory: they are modelled   *)
(* from sections 3, 4.1, 4.3 and 4.4 of the specification and from          *)
(* tests/test_message_trace.py, on top of the MessageTrace of src/result.py.*)

\* TraceSeverityLevel with the SUCCESS member the tests use
TraceSeverityLevelCore == [SUCCESS |-> "success"] @@ TraceSeverityLevel

MessageTrace_success(message, code, details, stack_trace) ==
    MessageTrace(message, "SUCCESS", code, details, stack_trace)

\* the object exposes a to_dict method
Validator_has_to_dict(obj) == "to_dict" \in obj.attrs

\* mutant: a tuple counts as an ordered sequence
Validator_is_json_primitive_with_tuple(value) ==
    value.t \in {"str", "int", "float", "bool", "NoneType", "dict", "list", "tuple"}

\* the runtime type is exactly one of str, int, float, bool, NoneType, dict, list
Validator_is_json_primitive(value) ==
    value.t \in {"str", "int", "float", "bool", "NoneType", "dict", "list"}

\* mutant: str() is tried before to_dict()
serialize_message_str_first(message) ==
    IF "__str__" \in message.attrs THEN PyStr(message.s)
    ELSE IF Validator_has_to_dict(message) THEN PyDict(message.d)
    ELSE IF Validator_is_json_primitive(message) THEN message
    ELSE PyStr(message.s)

\* the message payload as a JSON-safe value: to_dict(), else itself, else str()
serialize_message(message) ==
    IF Validator_has_to_dict(message) THEN PyDict(message.d)
    ELSE IF Validator_is_json_primitive(message) THEN message
    ELSE PyStr(message.s)

MessageTrace_to_dict(self) ==
    LET keys == {"message", "severity"}
                \cup (IF self.code # PyNone THEN {"code"} ELSE {})
                \cup (IF self.details # 0 THEN {"details"} ELSE {})
                \cup (IF self.stack_trace # PyNone THEN {"stack_trace"} ELSE {})
    IN [k \in keys |->
          CASE k = "message" -> serialize_message(self.message)
            [] k = "severity" -> PyStr(TraceSeverityLevelCore[self.severity])
            [] k = "code" -> self.code
            [] k = "details" -> PyDict(dicts[self.details])
            [] k = "stack_trace" -> self.stack_trace]

----------------------------------------------------------------------------
(* Inputs of serialization: payloads of every kind the tests use *)

PyInt42 == [t |-> "int", s |-> "42", d |-> {}, attrs |-> {}]

PyTuple == [t |-> "tuple", s |-> "('Error', 404, 'Not Found')", d |-> {}, attrs |-> {}]

CustomObject == [t |-> "CustomObject", s |-> "<CustomObject object>", d |-> {}, attrs |-> {}]

NonSerializable ==
    [t |-> "NonSerializable", s |-> "NonSerializable(test)", d |-> {}, attrs |-> {"__str__"}]

SerializableError ==
    [t |-> "SerializableError", s |-> "<SerializableError object>",
     d |-> {<<"code", "E001">>}, attrs |-> {"to_dict"}]

CustomWithBoth ==
    [t |-> "CustomWithBoth", s |-> "from __str__",
     d |-> {<<"from", "to_dict">>}, attrs |-> {"to_dict", "__str__"}]

Payloads ==
    { PyStr("Step 1 completed"), PyInt42, PyNone, PyDict({<<"key", "value">>}),
      PyTuple, CustomObject, NonSerializable, SerializableError, CustomWithBoth }

SerArgs ==
    { Args(m, c, d, st) : m \in Payloads, c \in {PyNone, PyStr("STEP_1")},
                          d \in {0, DetailsDict}, st \in {PyNone, PyStr("test.py:42")} }

Factories == {"success", "info", "warning", "error"}

\* MessageTrace.<factory>(a.message, a.code, a.details, a.stack_trace)
factory_call(factory, a) ==
    CASE factory = "success" -> MessageTrace_success(a.message, a.code, a.details, a.stack_trace)
      [] factory = "info" -> MessageTrace_info(a.message, a.code, a.details, a.stack_trace)
      [] factory = "warning" -> MessageTrace_warning(a.message, a.code, a.details, a.stack_trace)
      [] factory = "error" -> MessageTrace_error(a.message, a.code, a.details, a.stack_trace)

\* self.<op>(a.message, a.code, a.details, a.stack_trace)
with_call(self, op, a) ==
    CASE IsOkInstance(self) /\ op = "with_info" ->
            Ok_with_info(self, a.message, a.code, a.details, a.stack_trace)
      [] IsOkInstance(self) /\ op = "with_warning" ->
            Ok_with_warning(self, a.message, a.code, a.details, a.stack_trace)
      [] IsErrInstance(self) /\ op = "with_error" ->
            Err_with_error(self, a.message, a.code, a.details, a.stack_trace)
      [] IsErrInstance(self) /\ op = "with_info" ->
            Err_with_info(self, a.message, a.code, a.details, a.stack_trace)
      [] IsErrInstance(self) /\ op = "with_warning" ->
            Err_with_warning(self, a.message, a.code, a.details, a.stack_trace)

SerInit ==
    /\ objs = <<>>
    /\ origin = <<>>
    /\ dicts = InitDicts
    /\ hist = {}
    /\ muts = 0
    /\ lists = <<>>
    /\ given = <<>>
    /\ last = NoCall
    /\ pc = <<>>
    /\ loc = <<>>
    /\ trace = Idle
    /\ out = Idle

Made(how, cls, a, t) ==
    /\ trace' = [pc |-> "made", how |-> how, cls |-> cls, args |-> a, t |-> t]
    /\ out' = Idle
    /\ hist' = IF a.details # 0 THEN {<<a.details, dicts[a.details]>>} ELSE {}
    /\ UNCHANGED <<lists, given, objs, origin, dicts, muts, last, pc, loc>>

\* MessageTrace(message=..., severity=..., ...)
MakeDirect ==
    /\ trace.pc = "idle"
    /\ \E severity \in DOMAIN TraceSeverityLevelCore, a \in SerArgs :
          Made("MessageTrace", severity, a,
               MessageTrace(a.message, severity, a.code, a.details, a.stack_trace))

\* MessageTrace.success(...), .info(...), .warning(...), .error(...)
MakeByFactory ==
    /\ trace.pc = "idle"
    /\ \E factory \in Factories, a \in SerArgs :
          Made(factory, "MessageTrace", a, factory_call(factory, a))

\* self.with_*(...).messages[-1]
MakeByWith ==
    /\ trace.pc = "idle"
    /\ \E self \in CtorCalls, a \in SerArgs : \E op \in Methods(self.cls) :
          LET res == with_call(self, op, a)
          IN Made(op, self.cls, a, res.messages[Len(res.messages)])

\* trace.to_dict()
ToDict ==
    /\ trace.pc = "made"
    /\ out' = [pc |-> "returned", ret |-> MessageTrace_to_dict(trace.t)]
    /\ UNCHANGED <<lists, given, objs, origin, dicts, hist, muts, last, pc, loc, trace>>

SerNext ==
    \/ MakeDirect
    \/ MakeByFactory
    \/ MakeByWith
    \/ ToDict
    \/ \E k \in {"field", "extra"} : SetItem(DetailsDict, k, "modified")
    \/ DelItem(DetailsDict, "field")

SpecSer == SerInit /\ [][SerNext]_vars

----------------------------------------------------------------------------
(* Claims about serialization (specification SpecSer) *)

OptionalKeys == {"code", "details", "stack_trace"}

Step1Args == Args(PyStr("Step 1 completed"), PyStr("STEP_1"), 0, PyNone)

C9_PayloadPrecedence ==
    out.pc = "returned" =>
        LET m == trace.t.message
            r == out.ret["message"]
        IN /\ "to_dict" \in m.attrs => r = PyDict(m.d)
           /\ ("to_dict" \notin m.attrs /\ Validator_is_json_primitive(m)) => r = m
           /\ ("to_dict" \notin m.attrs /\ ~Validator_is_json_primitive(m)) => r = PyStr(m.s)
           /\ m = CustomWithBoth => (r = PyDict({<<"from", "to_dict">>}) /\ r # PyStr("from __str__"))
           /\ m = SerializableError => r = PyDict({<<"code", "E001">>})
           /\ m = NonSerializable => r = PyStr("NonSerializable(test)")
           /\ m = PyTuple => r = PyStr("('Error', 404, 'Not Found')")
           /\ m = CustomObject => r = PyStr("<CustomObject object>")
           /\ m \in {PyStr("Step 1 completed"), PyInt42, PyNone, PyDict({<<"key", "value">>})} => r = m

\* C9's case: a payload with both to_dict and __str__ has been serialized
C9_Witness ==
    /\ out.pc = "returned"
    /\ trace.t.message = CustomWithBoth
    /\ out.ret["message"].t = "dict"

\* the enumeration member each factory is named after, and each member's lowercase name
MemberOf == [success |-> "SUCCESS", info |-> "INFO", warning |-> "WARNING", error |-> "ERROR"]

LowercaseName == [SUCCESS |-> "success", INFO |-> "info", WARNING |-> "warning", ERROR |-> "error"]

----------------------------------------------------------------------------
(* to_dict() with the identities of the mappings it returns (specification *)
(* SpecFresh). out.tops is the heap of returned top-level mappings: the    *)
(* items of each under every key but "details", and the id in dicts of the *)
(* mapping under "details" (0: no such key). out.calls[n] is what the n-th *)
(* call of to_dict() returned. The message payload stays a value: the      *)
(* mappings at stake are the top-level one and the one under "details".    *)

MaxCalls == 2

FreshIdle == [pc |-> "idle", tops |-> <<>>, calls |-> <<>>, given_touched |-> FALSE]

\* `{...}`: the id of the mapping to_dict() builds and returns
to_dict_result_id == Len(out.tops) + 1

\* `dict(self.details)`: the id of the plain mapping stored under "details"
to_dict_details_id(self) ==
    IF self.details = 0 THEN 0 ELSE Cardinality(DOMAIN dicts) + 1

FreshInit ==
    /\ objs = <<>>
    /\ origin = <<>>
    /\ dicts = InitDicts
    /\ hist = {}
    /\ muts = 0
    /\ lists = <<>>
    /\ given = <<>>
    /\ last = NoCall
    /\ pc = <<>>
    /\ loc = <<>>
    /\ trace = Idle
    /\ out = FreshIdle

\* msg = MessageTrace.<factory>(...)
MakeTrace ==
    /\ trace.pc = "idle"
    /\ \E factory \in Factories, a \in CallArgs :
          /\ trace' = [pc |-> "made", how |-> factory, cls |-> "MessageTrace", args |-> a,
                       t |-> factory_call(factory, a)]
          /\ hist' = IF a.details # 0 THEN {<<a.details, dicts[a.details]>>} ELSE {}
    /\ UNCHANGED <<lists, given, objs, origin, dicts, muts, last, pc, loc, out>>

\* dict_n = msg.to_dict()
ToDictFresh ==
    /\ trace.pc = "made"
    /\ Len(out.calls) < MaxCalls
    /\ LET self == trace.t
           ret == MessageTrace_to_dict(self)
           top == to_dict_result_id
           det == to_dict_details_id(self)
       IN /\ dicts' = IF det \in DOMAIN dicts \cup {0} THEN dicts
                      ELSE (det :> dicts[self.details]) @@ dicts
          /\ out' = [out EXCEPT
                       !.pc = "returned",
                       !.tops = IF top \in DOMAIN @ THEN @
                                ELSE Append(@, [items |-> [k \in DOMAIN ret \ {"details"} |-> ret[k]],
                                                details |-> det]),
                       !.calls = Append(@, [top |-> top, returned |-> ret, touched |-> FALSE])]
    /\ UNCHANGED <<lists, given, objs, origin, hist, muts, last, pc, loc, trace>>

\* what the n-th returned structure holds now
returned_now(n) ==
    LET top == out.tops[out.calls[n].top]
    IN [k \in DOMAIN top.items \cup (IF top.details # 0 THEN {"details"} ELSE {}) |->
          IF k = "details" THEN PyDict(dicts[top.details]) ELSE top.items[k]]

\* the caller's dict_n["message"] = "changed"
SetReturnedItem(n) ==
    /\ muts < MaxMuts
    /\ n \in DOMAIN out.calls
    /\ out' = [out EXCEPT !.tops[out.calls[n].top].items["message"] = PyStr("changed"),
                          !.calls[n].touched = TRUE]
    /\ muts' = muts + 1
    /\ UNCHANGED <<lists, given, objs, origin, dicts, hist, last, pc, loc, trace>>

\* the caller's dict_n["details"]["field"] = "modified"
SetReturnedDetailsItem(n) ==
    /\ muts < MaxMuts
    /\ n \in DOMAIN out.calls
    /\ out.tops[out.calls[n].top].details # 0
    /\ dicts' = [dicts EXCEPT ![out.tops[out.calls[n].top].details] =
                    {kv \in @ : kv[1] # "field"} \cup {<<"field", "modified">>}]
    /\ out' = [out EXCEPT !.calls[n].touched = TRUE]
    /\ muts' = muts + 1
    /\ UNCHANGED <<lists, given, objs, origin, hist, last, pc, loc, trace>>

\* the caller's d["field"] = "modified" on the mapping d it gave as details
SetGivenItem ==
    /\ muts < MaxMuts
    /\ trace.pc = "made"
    /\ trace.t.details # 0
    /\ dicts' = [dicts EXCEPT ![trace.t.details] =
                    {kv \in @ : kv[1] # "field"} \cup {<<"field", "modified">>}]
    /\ out' = [out EXCEPT !.given_touched = TRUE]
    /\ muts' = muts + 1
    /\ UNCHANGED <<lists, given, objs, origin, hist, last, pc, loc, trace>>

FreshNext ==
    \/ MakeTrace
    \/ ToDictFresh
    \/ \E n \in 1..MaxCalls : SetReturnedItem(n)
    \/ \E n \in 1..MaxCalls : SetReturnedDetailsItem(n)
    \/ SetGivenItem

SpecFresh == FreshInit /\ [][FreshNext]_vars

\* the top-level mappings and the details mappings that the calls returned
\* are pairwise distinct objects, none is the trace's own details mapping,
\* and a returned structure the caller did not write to holds what it held
\* when it was returned
FreshStructures ==
    /\ \A n, m \in DOMAIN out.calls :
          n # m =>
             /\ out.calls[n].top # out.calls[m].top
             /\ LET dn == out.tops[out.calls[n].top].details
                    dm == out.tops[out.calls[m].top].details
                IN dn # 0 => dn # dm /\ dn # trace.t.details
    /\ \A n \in DOMAIN out.calls :
          ~out.calls[n].touched => returned_now(n) = out.calls[n].returned
    /\ (trace.pc = "made" /\ trace.t.details # 0 /\ ~out.given_touched) =>
          <<trace.t.details, dicts[trace.t.details]>> \in hist

\* C11: two calls of to_dict() on one MessageTrace return structures that are
\* equal in content, whose top-level mappings are distinct objects and whose
\* details mappings, when present, are distinct objects, so that writing to
\* one returned structure or to its details changes neither the other
\* returned structure nor the trace.
C11_ToDictFresh ==
    /\ \A n, m \in DOMAIN out.calls : out.calls[n].returned = out.calls[m].returned
    /\ FreshStructures

----------------------------------------------------------------------------
(* Validator.is_json_primitive on the values the tests classify            *)
(* (specification SpecVal). out.log holds the calls made so far: the value *)
(* given and what was returned.                                             *)

MaxChecks == 2

PyVal(t, s) == [t |-> t, s |-> s, d |-> {}, attrs |-> {}]

\* the values TestValidatorIsJsonPrimitive passes, and an instance of a dict subclass
Classified ==
    { PyStr("hello"), PyStr(""),
      PyInt42, PyVal("int", "0"), PyVal("int", "-1"),
      PyVal("float", "3.14"), PyVal("float", "0.0"), PyVal("float", "-1.5"),
      PyVal("bool", "True"), PyVal("bool", "False"),
      PyNone,
      PyDict({}), PyDict({<<"key", "value">>}),
      PyVal("list", "[]"), PyVal("list", "[1, 2, 3]"),
      CustomObject,
      PyVal("tuple", "()"), PyVal("tuple", "(1, 2)"), PyTuple,
      PyVal("OrderedDict", "OrderedDict()") }

ValInit ==
    /\ objs = <<>>
    /\ origin = <<>>
    /\ dicts = InitDicts
    /\ hist = {}
    /\ muts = 0
    /\ lists = <<>>
    /\ given = <<>>
    /\ last = NoCall
    /\ pc = <<>>
    /\ loc = <<>>
    /\ trace = Idle
    /\ out = [pc |-> "idle", log |-> <<>>]

\* Validator.is_json_primitive(value)
IsJsonPrimitive(value) ==
    /\ Len(out.log) < MaxChecks
    /\ out' = [pc |-> "returned",
               log |-> Append(out.log, [value |-> value,
                                        ret |-> Validator_is_json_primitive(value)])]
    /\ UNCHANGED <<lists, given, objs, origin, dicts, hist, muts, last, pc, loc, trace>>

ValNext == \E value \in Classified : IsJsonPrimitive(value)

SpecVal == ValInit /\ [][ValNext]_vars

\* the seven runtime types that are JSON primitives
JsonTypes == {"str", "int", "float", "bool", "NoneType", "dict", "list"}

\* C12: Validator.is_json_primitive(v) is true exactly when the runtime type
\* of v is one of str, int, float, bool, NoneType, dict, list: true for {},
\* [], "", 0, 0.0, True and None, false for every tuple, the empty one
\* included, and for every instance of a user-defined class.
C12_JsonPrimitive ==
    \A n \in DOMAIN out.log :
       LET v == out.log[n].value
           ret == out.log[n].ret
       IN /\ ret \in BOOLEAN
          /\ ret <=> v.t \in JsonTypes
          /\ v \in {PyDict({}), PyVal("list", "[]"), PyStr(""), PyVal("int", "0"),
                    PyVal("float", "0.0"), PyVal("bool", "True"), PyNone} => ret
          /\ v.t = "tuple" => ~ret
          /\ v \in {CustomObject, PyVal("OrderedDict", "OrderedDict()")} => ~ret

\* C12's case: the empty tuple was classified as no primitive and the empty
\* list as one
C12_Witness ==
    /\ Len(out.log) = 2
    /\ out.log[1] = [value |-> PyVal("tuple", "()"), ret |-> FALSE]
    /\ out.log[2] = [value |-> PyVal("list", "[]"), ret |-> TRUE]

----------------------------------------------------------------------------
(* Assignment to a field of a MessageTrace (specification SpecFrozen).     *)
(* MessageTrace is declared @dataclass(frozen=True): the __setattr__ that  *)
(* dataclasses generates raises FrozenInstanceError, a subclass of         *)
(* AttributeError, before anything is stored.                              *)

Fields == {"message", "severity", "code", "details", "stack_trace"}

\* issubclass(exc, AttributeError)
IsAttributeError(exc) == exc \in {"AttributeError", "FrozenInstanceError"}

\* mutant: the dataclass is not frozen, the assignment is carried out
MessageTrace_setattr_not_frozen(self, name, value) ==
    [self |-> [self EXCEPT ![name] = value], raised |-> "none"]

\* self.<name> = value: the object afterwards and the exception raised
MessageTrace_setattr(self, name, value) ==
    [self |-> self, raised |-> "FrozenInstanceError"]

\* the values a caller tries to assign to each field
Assigned ==
    [message |-> {PyStr("New message")},
     severity |-> {"ERROR", "INFO"},
     code |-> {PyStr("NEW"), PyNone},
     details |-> {0, MetadataDict},
     stack_trace |-> {PyStr("other.py:1")}]

\* msg.<name> = value
SetAttr ==
    /\ trace.pc = "made"
    /\ \E name \in Fields : \E value \in Assigned[name] :
          LET res == MessageTrace_setattr(trace.t, name, value)
          IN /\ trace' = [trace EXCEPT !.t = res.self]
             /\ out' = [pc |-> "assigned", name |-> name, value |-> value,
                        before |-> trace.t, raised |-> res.raised]
    /\ UNCHANGED <<lists, given, objs, origin, dicts, hist, muts, last, pc, loc>>

FrozenNext ==
    \/ MakeDirect
    \/ MakeByFactory
    \/ MakeByWith
    \/ SetAttr

SpecFrozen == SerInit /\ [][FrozenNext]_vars

\* C13: an assignment to any field of a constructed MessageTrace (message,
\* severity, code, details, stack_trace) fails with an AttributeError and
\* leaves every field with the value it had before the attempt.
C13_FrozenTrace ==
    out.pc = "assigned" =>
        /\ IsAttributeError(out.raised)
        /\ \A f \in Fields : trace.t[f] = out.before[f]

\* C13's case: an assignment of another severity to a trace made directly
\* with severity INFO has been attempted
C13_Witness ==
    /\ out.pc = "assigned"
    /\ out.name = "severity" /\ out.value = "ERROR"
    /\ trace.how = "MessageTrace"
    /\ out.before.severity = "INFO"

----------------------------------------------------------------------------
(* Construction from a caller-owned list (specification SpecList). Here    *)
(* the messages field of an instance is a Python value with its identity:  *)
(* a tuple (immutable, held by its elements) or a reference to a list in   *)
(* the heap `lists`, so that a constructor which kept the caller's list    *)
(* would be visible.                                                        *)

TupleVal(items) == [type |-> "tuple", items |-> items, ref |-> 0]

ListRef(id) == [type |-> "list", items |-> <<>>, ref |-> id]

\* the elements iterating over messages yields now
elements(messages) ==
    IF messages.type = "list" THEN lists[messages.ref] ELSE messages.items

\* isinstance(self.messages, tuple)
messages_is_tuple(self) == self.messages.type = "tuple"

\* mutant: the iterable given is kept as it is
post_init_keeps_iterable(self) == self

\* Ok.__post_init__
Ok_post_init(self) ==
    IF messages_is_tuple(self) THEN self
    ELSE [self EXCEPT !.messages = TupleVal(tuple(elements(@)))]

\* Err.__post_init__
Err_post_init(self) ==
    IF messages_is_tuple(self) THEN self
    ELSE [self EXCEPT !.messages = TupleVal(tuple(elements(@)))]

\* Ok(value=value, messages=messages, metadata=metadata)
Ok_construct(value, messages, metadata) ==
    Ok_post_init([cls |-> "Ok", value |-> value, messages |-> messages, metadata |-> metadata])

\* Err(trace=trace_, messages=messages, metadata=metadata)
Err_construct(trace_, messages, metadata) ==
    Err_post_init([cls |-> "Err", trace |-> trace_, messages |-> messages, metadata |-> metadata])

StepInfo == MessageTrace_info(PyStr("Step 1 completed"), PyStr("STEP_1"), 0, PyNone)

LateWarning == MessageTrace_warning(PyStr("Minor issue detected"), PyNone, 0, PyNone)

\* the caller's lists: an empty one and one of two traces
InitLists == << <<>>, <<OldError, StepInfo>> >>

ListInit ==
    /\ objs = <<>>
    /\ origin = <<>>
    /\ dicts = InitDicts
    /\ hist = {}
    /\ muts = 0
    /\ last = NoCall
    /\ pc = <<>>
    /\ loc = <<>>
    /\ trace = Idle
    /\ out = Idle
    /\ lists = InitLists
    /\ given = <<>>

Constructed(new, from, ref, items) ==
    /\ Len(objs) < MaxObjs
    /\ objs' = Append(objs, new)
    /\ origin' = Append(origin, 0)
    /\ given' = Append(given, [from |-> from, ref |-> ref, items |-> items])
    /\ UNCHANGED <<dicts, hist, muts, last, pc, loc, trace, out, lists>>

\* Ok("success", messages=xs) or Err(ValueError(...), messages=xs) for the caller's list xs
ConstructFromList(xs) ==
    \E new \in {Ok_construct(PyStr("success"), ListRef(xs), 0),
                Err_construct(ValueError, ListRef(xs), 0)} :
       Constructed(new, "list", xs, lists[xs])

\* Ok(None, messages=(old,)) or Err(None, messages=(old,))
ConstructFromTuple ==
    \E new \in {Ok_construct(PyNone, TupleVal(<<OldError>>), 0),
                Err_construct(PyNone, TupleVal(<<OldError>>), 0)} :
       Constructed(new, "tuple", 0, <<OldError>>)

\* the arguments of the with_* calls made on instances built from lists
ListCallArgs == {a \in CallArgs : a.code = PyNone}

\* objs[i].with_*(...): `self.messages + (new_message,)` needs a tuple on the left
CallWith(i, a) ==
    /\ i \in DOMAIN objs
    /\ Len(objs) < MaxObjs
    /\ messages_is_tuple(objs[i])
    /\ \E op \in Methods(objs[i].cls) :
          LET self == [objs[i] EXCEPT !.messages = @.items]
              res == with_call(self, op, a)
              arg == TupleVal(res.messages)
              new == IF IsOkInstance(self) THEN Ok_construct(res.value, arg, res.metadata)
                     ELSE Err_construct(res.trace, arg, res.metadata)
          IN /\ objs' = Append(objs, new)
             /\ origin' = Append(origin, i)
             /\ given' = Append(given, [from |-> op, args |-> a, ref |-> 0, items |-> arg.items])
    /\ UNCHANGED <<dicts, hist, muts, last, pc, loc, trace, out, lists>>

\* the caller's xs.append(trace)
ListAppend(xs) ==
    /\ muts < MaxMuts
    /\ lists' = [lists EXCEPT ![xs] = Append(@, LateWarning)]
    /\ muts' = muts + 1
    /\ UNCHANGED <<objs, origin, dicts, hist, last, pc, loc, trace, out, given>>

\* the caller's xs.remove(xs[0])
ListRemove(xs) ==
    /\ muts < MaxMuts
    /\ lists[xs] # <<>>
    /\ lists' = [lists EXCEPT ![xs] = Tail(@)]
    /\ muts' = muts + 1
    /\ UNCHANGED <<objs, origin, dicts, hist, last, pc, loc, trace, out, given>>

ListNext ==
    \/ \E xs \in DOMAIN InitLists : ConstructFromList(xs)
    \/ ConstructFromTuple
    \/ \E i \in 1..MaxObjs, a \in ListCallArgs : CallWith(i, a)
    \/ \E xs \in DOMAIN InitLists : ListAppend(xs)
    \/ \E xs \in DOMAIN InitLists : ListRemove(xs)

SpecList == ListInit /\ [][ListNext]_vars

\* C14: the messages field of every Ok and Err is a tuple that holds, in
\* order, the elements the messages argument held when the instance was
\* constructed, whatever the caller appends to or removes from that list
\* afterwards; this holds for instances constructed directly and for those
\* a with_* operation returns.
C14_MessagesTuple ==
    \A i \in DOMAIN objs :
       /\ objs[i].messages.type = "tuple"
       /\ elements(objs[i].messages) = given[i].items

\* C14's case: an instance was constructed from a list of two traces, the
\* caller has changed the list since, and a with_* call on the instance
\* has returned
C14_Witness ==
    \E i, j \in DOMAIN objs :
       /\ given[i].from = "list"
       /\ Len(given[i].items) = 2
       /\ lists[given[i].ref] # given[i].items
       /\ origin[j] = i
       /\ Len(elements(objs[j].messages)) = 3

----------------------------------------------------------------------------
(* Claims about trees of derivations (specification Spec) *)

\* the instance k with_* calls above objs[i] (0: the chain is shorter)
RECURSIVE Up(_, _)
Up(i, k) ==
    IF k = 0 THEN i
    ELSE IF origin[i] = 0 THEN 0
    ELSE Up(origin[i], k - 1)

\* the trace the with_* call that returned objs[i] was asked to add
TraceGiven(i) ==
    MessageTrace(given[i].args.message, SeverityNamedBy(given[i].from), given[i].args.code,
                 given[i].args.details, given[i].args.stack_trace)

\* objs[d] was obtained from objs[a] by k with_* calls: its messages are
\* those of objs[a] followed by the traces of the k calls, in call order
Extends(a, d, k) ==
    LET am == objs[a].messages
        dm == objs[d].messages
    IN /\ Len(dm) = Len(am) + k
       /\ SubSeq(dm, 1, Len(am)) = am
       /\ \A j \in 1..k : dm[Len(am) + j] = TraceGiven(Up(d, k - j))

\* objs[d1] and objs[d2] descend from objs[a] through different with_* calls
\* on objs[a], k1 and k2 calls deep
Branches(a, d1, k1, d2, k2) ==
    /\ k1 >= 1 /\ k2 >= 1
    /\ Up(d1, k1) = a /\ Up(d2, k2) = a
    /\ Up(d1, k1 - 1) # Up(d2, k2 - 1)

\* C15: messages are append-only across a tree of with_* derivations: if d
\* is obtained from a by k >= 0 successive with_* calls, a.messages is a
\* prefix of d.messages, len(d.messages) = len(a.messages) + k and the k
\* added traces appear in call order; two descendants of a on different
\* branches have a.messages as common prefix, each followed by the traces
\* of its own calls only, so that the common prefix ends with a.messages
\* wherever the first traces added on the two branches differ.
C15_AppendOnlyTree ==
    /\ \A d \in HeapIds : \A k \in 0..Len(objs) :
          Up(d, k) # 0 => Extends(Up(d, k), d, k)
    /\ \A a, d1, d2 \in HeapIds : \A k1, k2 \in 1..Len(objs) :
          Branches(a, d1, k1, d2, k2) =>
             LET n == Len(objs[a].messages)
             IN /\ SubSeq(objs[d1].messages, 1, n) = objs[a].messages
                /\ SubSeq(objs[d2].messages, 1, n) = objs[a].messages
                /\ Len(objs[d1].messages) = n + k1
                /\ Len(objs[d2].messages) = n + k2
                /\ TraceGiven(Up(d1, k1 - 1)) # TraceGiven(Up(d2, k2 - 1)) =>
                      objs[d1].messages[n + 1] # objs[d2].messages[n + 1]

\* C15's case: two with_* calls with different arguments were made on one
\* instance that held a trace already
C15_Witness ==
    \E a, d1, d2 \in HeapIds :
       /\ Branches(a, d1, 1, d2, 1)
       /\ Len(objs[a].messages) = 1
       /\ objs[d1].messages[2] # objs[d2].messages[2]
       /\ Len(objs[d1].messages) = 2 /\ Len(objs[d2].messages) = 2

====
